---- MODULE Spec2Model ----
(***************************************************************************)
(* Model of the progressbar widget of awesome (widgets/progressbar.c).     *)
(*                                                                         *)
(* State: the widget's private data (progressbar_data_t: the layout        *)
(* parameters and the list of bars), the last call made on the widget and  *)
(* what the last draw emitted.                                             *)
(*                                                                         *)
(* Numbers.  The bar's min_value, max_value and value are C floats.  They  *)
(* are modelled as exact fixed-point numbers counted in units of 0.0001    *)
(* (the epsilon of luaA_progressbar_bar_properties_set), so 100.0 is       *)
(* 1000000 units and the epsilon is 1 unit.  d->height is a float counted  *)
(* in hundredths (0.80 is 80).  Every float expression of the source is    *)
(* evaluated as the exact rational it denotes and converted to int the way *)
(* a C cast does it, by truncation toward zero.  Integer division is C's   *)
(* (truncation toward zero), not TLA+'s \div (floor).                      *)
(*                                                                         *)
(* Colours are not part of the state: a draw command names the bar and the *)
(* field of the bar whose colour it uses (bar->fg_off, bar->bg, ...).      *)
(***************************************************************************)
EXTENDS Integers, Sequences, FiniteSets, TLC

VARIABLES
    d,      \* progressbar_data_t without the bars: the layout parameters
    bars,   \* d->bars: the list of bar_t, in list order
    call,   \* the last call made on the widget, with its arguments
    out     \* what the last progressbar_draw emitted and returned

vars == <<d, bars, call, out>>

----------------------------------------------------------------------------
(* Fixed point and C arithmetic *)

\* 0.0001, the epsilon of the range hack, is one unit.
Eps == 1

\* Units in 1.0: a float x is the integer x * Scale.
Scale == 10000

\* bar->max_value = 100.0 of a new bar.
DefaultMax == 1000000

\* d->height is counted in 1/HeightScale; d->height = 0.80 is 80.
HeightScale == 100

Abs(x) == IF x < 0 THEN -x ELSE x

\* C integer division and the (int) cast of a rational a/b: truncation
\* toward zero.  b # 0.
CDiv(a, b) ==
    IF (a >= 0) = (b > 0)
    THEN Abs(a) \div Abs(b)
    ELSE -(Abs(a) \div Abs(b))

\* The cast without the + 0.5: truncation instead of rounding.
RoundCastNoHalf(num, den) == CDiv(num, den)

\* (int)(num/den + 0.5), the rational num/den with den > 0.
RoundCast(num, den) == CDiv(2 * num + den, 2 * den)

MIN(a, b) == IF a < b THEN a ELSE b

MAX(a, b) == IF a > b THEN a ELSE b

----------------------------------------------------------------------------
(* The bar list *)

\* The position of the bar titled title in the list, 0 when there is none:
\* the for loop with a_strcmp of both Lua entry points.
BarIndex(bs, title) ==
    IF \E i \in 1..Len(bs) : bs[i].title = title
    THEN CHOOSE i \in 1..Len(bs) :
            /\ bs[i].title = title
            /\ \A j \in 1..(i - 1) : bs[j].title # title
    ELSE 0

\* The bar progressbar_bar_add creates: p_new zeroes the structure, then the
\* title and max_value are set.
NewBar(title) ==
    [title |-> title, min_value |-> 0, max_value |-> DefaultMax,
     value |-> 0, reverse |-> FALSE]

\* progressbar_bar_add: the new bar is appended to the list.
progressbar_bar_add(bs, title) == Append(bs, NewBar(title))

\* Upsert with the lookup lost: every call creates a bar.
UpsertAlwaysAdds(bs, title) == progressbar_bar_add(bs, title)

\* The list after the lookup-or-create of both entry points: a bar is
\* created when no bar has the title.
Upsert(bs, title) ==
    IF BarIndex(bs, title) = 0 THEN progressbar_bar_add(bs, title) ELSE bs

----------------------------------------------------------------------------
(* luaA_progressbar_bar_properties_set: the range of a bar *)

\* An optional key of a Lua property table: <<>> when the key is absent,
\* <<x>> when it is present.  luaA_getopt_number / luaA_getopt_boolean
\* return the default when the key is absent.
luaA_getopt(opt, def) == IF opt = <<>> THEN def ELSE opt[1]

\* RangeMinPhase pushing max_value to the epsilon above the new min_value
\* instead of above the old max_value.
RangeMinPhaseFromMin(bar, omin) ==
    LET b1 == [bar EXCEPT !.min_value = luaA_getopt(omin, @)]
        b2 == IF b1.max_value <= b1.min_value
              THEN [b1 EXCEPT !.max_value = b1.min_value + Eps]
              ELSE b1
    IN  IF b2.value < b2.min_value
        THEN [b2 EXCEPT !.value = b2.min_value]
        ELSE b2

\* First phase: min_value is read, then max_value is pushed up by the
\* epsilon when it is not above min_value, then value is raised to min_value.
RangeMinPhase(bar, omin) ==
    LET b1 == [bar EXCEPT !.min_value = luaA_getopt(omin, @)]
        b2 == IF b1.max_value <= b1.min_value
              THEN [b1 EXCEPT !.max_value = @ + Eps]
              ELSE b1
    IN  IF b2.value < b2.min_value
        THEN [b2 EXCEPT !.value = b2.min_value]
        ELSE b2

\* RangeMaxPhase pulling min_value down to max_value, without the epsilon.
RangeMaxPhaseNoEpsilon(bar, omax) ==
    LET b1 == [bar EXCEPT !.max_value = luaA_getopt(omax, @)]
        b2 == IF b1.min_value >= b1.max_value
              THEN [b1 EXCEPT !.min_value = b1.max_value]
              ELSE b1
    IN  IF b2.value > b2.max_value
        THEN [b2 EXCEPT !.value = b2.max_value]
        ELSE b2

\* RangeMaxPhase without the last test: value is left above max_value.
RangeMaxPhaseNoClamp(bar, omax) ==
    LET b1 == [bar EXCEPT !.max_value = luaA_getopt(omax, @)]
    IN  IF b1.min_value >= b1.max_value
        THEN [b1 EXCEPT !.min_value = b1.max_value - Eps]
        ELSE b1

\* Second phase: max_value is read, then min_value is pulled to the epsilon
\* below max_value when it is not below it, then value is lowered to
\* max_value.
RangeMaxPhase(bar, omax) ==
    LET b1 == [bar EXCEPT !.max_value = luaA_getopt(omax, @)]
        b2 == IF b1.min_value >= b1.max_value
              THEN [b1 EXCEPT !.min_value = b1.max_value - Eps]
              ELSE b1
    IN  IF b2.value > b2.max_value
        THEN [b2 EXCEPT !.value = b2.max_value]
        ELSE b2

\* The bar after the range and reverse keys of the table are applied, in the
\* order of the source.
BarPropertiesSet(bar, omin, omax, orev) ==
    LET b == RangeMaxPhase(RangeMinPhase(bar, omin), omax)
    IN  [b EXCEPT !.reverse = luaA_getopt(orev, @)]

\* The value luaA_progressbar_bar_data_add stores.
ClampValue(bar, raw) == MAX(bar.min_value, MIN(bar.max_value, raw))

----------------------------------------------------------------------------
(* progressbar_draw: the layout *)

\* d->border_width + d->border_padding, the frame on each side of a bar.
Frame(dd) == dd.border_width + dd.border_padding

\* if(d->ticks_count && d->ticks_gap): the fill is cut into ticks.
Quantized(dd) == dd.ticks_count # 0 /\ dd.ticks_gap # 0

\* unit of a secondary length len: a tick and its gap.
TickUnit(dd, len) ==
    IF Quantized(dd) THEN CDiv(len + dd.ticks_gap, dd.ticks_count) ELSE 0

\* The secondary length rounded to match the ticks.
TickLength(dd, len) ==
    IF Quantized(dd)
    THEN TickUnit(dd, len) * dd.ticks_count - dd.ticks_gap
    ELSE len

\* pb_width of a vertical widget with the gaps between the bars forgotten.
VerticalPbWidthNoGap(dd, n) == CDiv(dd.width - 2 * Frame(dd) * n, n)

\* Vertical: pb_width, the thickness of one of n bars placed side by side.
VerticalPbWidth(dd, n) ==
    CDiv(dd.width - 2 * Frame(dd) * n - dd.gap * (n - 1), n)

\* Vertical: w->area.width, the extent the n bars take.
VerticalAreaWidth(dd, n) ==
    n * (VerticalPbWidth(dd, n) + 2 * Frame(dd) + dd.gap) - dd.gap

\* Vertical: pb_height before the ticks,
\* (int)(ctx->height * d->height + 0.5) - 2 * (border_width + border_padding).
VerticalRawHeight(dd, H) ==
    RoundCast(H * dd.height, HeightScale) - 2 * Frame(dd)

\* Horizontal: pb_width before the ticks.
HorizontalRawWidth(dd) == dd.width - 2 * Frame(dd)

\* Horizontal: pb_height, the thickness of one of n stacked bars,
\* (int)((ctx->height * d->height - n * 2 * frame - gap * (n - 1)) / n + 0.5).
HorizontalPbHeight(dd, n, H) ==
    RoundCast(H * dd.height
                - HeightScale * (n * 2 * Frame(dd) + dd.gap * (n - 1)),
              HeightScale * n)

\* pb_y: (int)(ctx->height * (1 - d->height)) / 2 + frame, w->area.y being 0.
PbY(dd, H) ==
    CDiv(CDiv(H * (HeightScale - dd.height), HeightScale), 2) + Frame(dd)

\* The geometry progressbar_draw computes before it walks the bars, for n
\* bars on a canvas of height H, w->area.x being ax.
Layout(dd, n, H, ax) ==
    IF dd.vertical
    THEN [pb_width |-> VerticalPbWidth(dd, n),
          pb_height |-> TickLength(dd, VerticalRawHeight(dd, H)),
          unit |-> TickUnit(dd, VerticalRawHeight(dd, H)),
          area_width |-> VerticalAreaWidth(dd, n),
          pb_x |-> ax + Frame(dd),
          pb_y |-> PbY(dd, H)]
    ELSE [pb_width |-> TickLength(dd, HorizontalRawWidth(dd)),
          pb_height |-> HorizontalPbHeight(dd, n, H),
          unit |-> TickUnit(dd, HorizontalRawWidth(dd)),
          area_width |-> TickLength(dd, HorizontalRawWidth(dd)) + 2 * Frame(dd),
          pb_x |-> ax + Frame(dd),
          pb_y |-> PbY(dd, H)]

\* The length along the axis of the fill: pb_height of a vertical widget,
\* pb_width of a horizontal one.
SecondaryLength(dd, lay) ==
    IF dd.vertical THEN lay.pb_height ELSE lay.pb_width

\* The thickness of a bar across the axis of the fill.
PrimaryLength(dd, lay) ==
    IF dd.vertical THEN lay.pb_width ELSE lay.pb_height

\* What pb_offset grows by after each bar.
OffsetStep(dd, lay) == PrimaryLength(dd, lay) + dd.gap + 2 * Frame(dd)

\* pb_offset when the i-th bar is drawn.
RECURSIVE PbOffset(_, _, _)
PbOffset(dd, lay, i) ==
    IF i <= 1 THEN 0 ELSE PbOffset(dd, lay, i - 1) + OffsetStep(dd, lay)

----------------------------------------------------------------------------
(* progressbar_draw: one bar *)

\* values_ticks: (int)(ticks_count * (value - min) / (max - min) + 0.5).
ValuesTicks(dd, bar) ==
    RoundCast(dd.ticks_count * (bar.value - bar.min_value),
              bar.max_value - bar.min_value)

\* Progress measured from max_value down instead of from min_value up.
ProgressFromMax(dd, len, unit, bar) ==
    LET flipped == [bar EXCEPT
                        !.value = bar.max_value - (bar.value - bar.min_value)]
    IN  IF Quantized(dd)
        THEN IF ValuesTicks(dd, flipped) # 0
             THEN ValuesTicks(dd, flipped) * unit - dd.ticks_gap
             ELSE 0
        ELSE RoundCast(len * (flipped.value - flipped.min_value),
                       flipped.max_value - flipped.min_value)

\* pb_progress as first computed, before reverse mirrors it: of the length
\* len of the fill, with ticks of unit.
Progress(dd, len, unit, bar) ==
    IF Quantized(dd)
    THEN IF ValuesTicks(dd, bar) # 0
         THEN ValuesTicks(dd, bar) * unit - dd.ticks_gap
         ELSE 0
    ELSE RoundCast(len * (bar.value - bar.min_value),
                   bar.max_value - bar.min_value)

\* pb_progress after "new value/progress in px": mirrored when reverse.
Mirrored(bar, len, progress) ==
    IF bar.reverse THEN len - progress ELSE progress

\* A draw_rectangle / draw_rectangle_gradient call: where in the source it
\* is made, the bar and the colour field it uses, filled or outlined, and the
\* rectangle.  A gradient also carries pattern_rect.
Rectangle(site, fill, color, bar, x, y, w, h) ==
    [site |-> site, fill |-> fill, color |-> color, bar |-> bar.title,
     x |-> x, y |-> y, w |-> w, h |-> h]

Gradient(site, bar, x, y, w, h, pat) ==
    [site |-> site, fill |-> "gradient", color |-> "fg", bar |-> bar.title,
     x |-> x, y |-> y, w |-> w, h |-> h, pattern |-> pat]

\* The border rectangle: the padded box filled with bg when there is
\* padding, then the outline.
BorderCmds(dd, lay, bar, off) ==
    LET x == IF dd.vertical
             THEN lay.pb_x + off - Frame(dd)
             ELSE lay.pb_x - Frame(dd)
        y == IF dd.vertical
             THEN lay.pb_y - Frame(dd)
             ELSE lay.pb_y + off - Frame(dd)
        w == lay.pb_width + 2 * Frame(dd)
        h == lay.pb_height + 2 * Frame(dd)
    IN  IF dd.border_width = 0 THEN <<>>
        ELSE (IF dd.border_padding # 0
              THEN <<Rectangle("padding", "solid", "bg", bar, x, y, w, h)>>
              ELSE <<>>)
             \o <<Rectangle("border", "outline", "bordercolor", bar, x, y, w, h)>>

\* pattern_rect of the gradient.
PatternRect(dd, lay, bar) ==
    IF dd.vertical
    THEN IF bar.reverse
         THEN [x |-> lay.pb_x, y |-> lay.pb_y, w |-> 0, h |-> lay.pb_height]
         ELSE [x |-> lay.pb_x, y |-> lay.pb_y + lay.pb_height, w |-> 0,
               h |-> -lay.pb_height]
    ELSE IF bar.reverse
         THEN [x |-> lay.pb_x + lay.pb_width, y |-> lay.pb_y,
               w |-> -lay.pb_width, h |-> 0]
         ELSE [x |-> lay.pb_x, y |-> lay.pb_y, w |-> lay.pb_width, h |-> 0]

\* The first segment drawn with the gradient whatever reverse is.
LowSegmentAlwaysGradient(dd, lay, bar, off, p) ==
    IF p > 0
    THEN LET x == IF dd.vertical THEN lay.pb_x + off ELSE lay.pb_x
             y == IF dd.vertical
                  THEN lay.pb_y + lay.pb_height - p
                  ELSE lay.pb_y + off
             w == IF dd.vertical THEN lay.pb_width ELSE p
             h == IF dd.vertical THEN p ELSE lay.pb_height
         IN  <<Gradient("low", bar, x, y, w, h, PatternRect(dd, lay, bar))>>
    ELSE <<>>

\* The first fill segment ("bottom part" / "left part"): the low end of the
\* axis, of length p = pb_progress, drawn when p > 0.
LowSegment(dd, lay, bar, off, p) ==
    IF p > 0
    THEN LET x == IF dd.vertical THEN lay.pb_x + off ELSE lay.pb_x
             y == IF dd.vertical
                  THEN lay.pb_y + lay.pb_height - p
                  ELSE lay.pb_y + off
             w == IF dd.vertical THEN lay.pb_width ELSE p
             h == IF dd.vertical THEN p ELSE lay.pb_height
         IN  IF bar.reverse
             THEN <<Rectangle("low", "solid", "fg_off", bar, x, y, w, h)>>
             ELSE <<Gradient("low", bar, x, y, w, h, PatternRect(dd, lay, bar))>>
    ELSE <<>>

\* The second segment drawn over the whole length instead of the rest of it.
HighSegmentFullLength(dd, lay, bar, off, p) ==
    IF SecondaryLength(dd, lay) - p > 0
    THEN LET x == IF dd.vertical THEN lay.pb_x + off ELSE lay.pb_x + p
             y == IF dd.vertical THEN lay.pb_y ELSE lay.pb_y + off
         IN  IF bar.reverse
             THEN <<Gradient("high", bar, x, y, lay.pb_width, lay.pb_height,
                             PatternRect(dd, lay, bar))>>
             ELSE <<Rectangle("high", "solid", "fg_off", bar, x, y,
                              lay.pb_width, lay.pb_height)>>
    ELSE <<>>

\* The second fill segment ("top part" / "right part"): the rest of the
\* axis, of length len - p, drawn when len - p > 0.
HighSegment(dd, lay, bar, off, p) ==
    IF SecondaryLength(dd, lay) - p > 0
    THEN LET x == IF dd.vertical THEN lay.pb_x + off ELSE lay.pb_x + p
             y == IF dd.vertical THEN lay.pb_y ELSE lay.pb_y + off
             w == IF dd.vertical THEN lay.pb_width ELSE lay.pb_width - p
             h == IF dd.vertical THEN lay.pb_height - p ELSE lay.pb_height
         IN  IF bar.reverse
             THEN <<Gradient("high", bar, x, y, w, h, PatternRect(dd, lay, bar))>>
             ELSE <<Rectangle("high", "solid", "fg_off", bar, x, y, w, h)>>
    ELSE <<>>

\* The loop that draws the gaps starts at first = base + (unit - ticks_gap)
\* and runs while last = base + len - ticks_gap >= position, in steps of unit.
GapFirst(dd, lay) ==
    (IF dd.vertical THEN lay.pb_y ELSE lay.pb_x) + (lay.unit - dd.ticks_gap)

GapLast(dd, lay) ==
    (IF dd.vertical THEN lay.pb_y ELSE lay.pb_x)
        + SecondaryLength(dd, lay) - dd.ticks_gap

\* The loop is entered and its step does not move the position toward the
\* end: it does not exit.
GapLoopDiverges(dd, lay) ==
    /\ Quantized(dd)
    /\ GapLast(dd, lay) >= GapFirst(dd, lay)
    /\ lay.unit <= 0

\* The loop of the gaps run up to the end of the bar instead of one gap short
\* of it: base + len >= position.
GapCountToEnd(dd, lay) ==
    IF GapLast(dd, lay) + dd.ticks_gap >= GapFirst(dd, lay)
    THEN (GapLast(dd, lay) + dd.ticks_gap - GapFirst(dd, lay)) \div lay.unit + 1
    ELSE 0

\* How many times the body of the loop runs when it exits.
GapCount(dd, lay) ==
    IF GapLast(dd, lay) >= GapFirst(dd, lay)
    THEN (GapLast(dd, lay) - GapFirst(dd, lay)) \div lay.unit + 1
    ELSE 0

\* "draw gaps": the bg rectangles of a bar whose loop exits.
GapCmds(dd, lay, bar, off) ==
    IF Quantized(dd)
    THEN [k \in 1..GapCount(dd, lay) |->
            IF dd.vertical
            THEN Rectangle("gap", "solid", "bg", bar, lay.pb_x + off,
                           GapFirst(dd, lay) + (k - 1) * lay.unit,
                           lay.pb_width, dd.ticks_gap)
            ELSE Rectangle("gap", "solid", "bg", bar,
                           GapFirst(dd, lay) + (k - 1) * lay.unit,
                           lay.pb_y + off, dd.ticks_gap, lay.pb_height)]
    ELSE <<>>

\* One turn of the loop over the bars, up to the gaps: the locals of the turn
\* and the commands of the border and of the two segments.
BarTurn(dd, lay, bar, off) ==
    LET progress == Progress(dd, SecondaryLength(dd, lay), lay.unit, bar)
        p == Mirrored(bar, SecondaryLength(dd, lay), progress)
    IN  [title |-> bar.title, pb_offset |-> off, progress |-> progress,
         pb_progress |-> p,
         cmds |-> BorderCmds(dd, lay, bar, off)
                    \o LowSegment(dd, lay, bar, off, p)
                    \o HighSegment(dd, lay, bar, off, p)]

\* The commands of the turns from..to, gaps included, in order.
RECURSIVE TurnCmds(_, _, _, _, _)
TurnCmds(dd, lay, bs, from, to) ==
    IF from > to THEN <<>>
    ELSE BarTurn(dd, lay, bs[from], PbOffset(dd, lay, from)).cmds
            \o GapCmds(dd, lay, bs[from], PbOffset(dd, lay, from))
            \o TurnCmds(dd, lay, bs, from + 1, to)

\* if(!d->bars) return 0;
EmptyDraw ==
    [op |-> "draw", hung |-> FALSE, ret |-> 0, nbbars |-> 0,
     turns |-> <<>>, cmds |-> <<>>]

\* progressbar_draw past the test for an empty list, on a canvas of height H
\* with w->area.x = ax: what it returns, the locals of each turn of the loop
\* over the bars and the commands it emits.  When the loop of the gaps does
\* not exit, the draw hangs in the first turn, after the segments of the
\* first bar, and returns nothing.
DrawBars(dd, bs, H, ax) ==
    LET n == Len(bs)
        lay == Layout(dd, n, H, ax)
    IN  IF GapLoopDiverges(dd, lay)
        THEN [op |-> "draw", hung |-> TRUE, nbbars |-> n, lay |-> lay,
              turns |-> <<BarTurn(dd, lay, bs[1], 0)>>,
              cmds |-> BarTurn(dd, lay, bs[1], 0).cmds]
        ELSE [op |-> "draw", hung |-> FALSE, ret |-> lay.area_width,
              nbbars |-> n, lay |-> lay,
              turns |-> [i \in 1..n |->
                            BarTurn(dd, lay, bs[i], PbOffset(dd, lay, i))],
              cmds |-> TurnCmds(dd, lay, bs, 1, n)]

\* progressbar_draw without the test for an empty list, where the division
\* by nbbars is the float one of the horizontal branch: no bar is walked and
\* the width computed for the widget is returned.
DrawResultNoEmptyTest(dd, bs, H, ax) ==
    IF Len(bs) = 0
    THEN [EmptyDraw EXCEPT
            !.ret = TickLength(dd, HorizontalRawWidth(dd)) + 2 * Frame(dd)]
    ELSE DrawBars(dd, bs, H, ax)

\* progressbar_draw.
DrawResult(dd, bs, H, ax) ==
    IF Len(bs) = 0 THEN EmptyDraw ELSE DrawBars(dd, bs, H, ax)

----------------------------------------------------------------------------
(* Inputs and bounds of the model *)

\* The titles the calls name.
Titles == {"cpu", "mem"}

\* How many epsilons a bound of a range may lie above a number that a call
\* supplied (max_value + 0.0001 can be applied again and again).
MaxBump == 2

\* 5.0, 10.0, 50.0 and 100.0 in units.
V5 == 5 * Scale

V10 == 10 * Scale

V50 == 50 * Scale

V100 == 100 * Scale

Opt(S) == {<<>>} \cup {<<x>> : x \in S}

\* The numbers a range bound can come from: the ones calls supply and the
\* default max_value.
Anchored(x, S) == \E a \in S \cup {DefaultMax} : x - a \in 0..MaxBump

\* widget_invalidate_bywidget: what was drawn is stale.
NoDraw == [op |-> "none"]

Invalidated == NoDraw

\* progressbar_new: the layout parameters of a new widget; p_new zeroes the
\* rest.
NewData ==
    [width |-> 80, gap |-> 2, border_width |-> 1, border_padding |-> 0,
     ticks_gap |-> 1, ticks_count |-> 0, vertical |-> FALSE, height |-> 80]

Init ==
    /\ d = NewData
    /\ bars = <<>>
    /\ call = [op |-> "new"]
    /\ out = NoDraw

----------------------------------------------------------------------------
(* The Lua entry points *)

luaA_progressbar_bar_properties_set(title, omin, omax, orev) ==
    LET bs == Upsert(bars, title)
        i == BarIndex(bs, title)
    IN  /\ bars' = [bs EXCEPT ![i] = BarPropertiesSet(@, omin, omax, orev)]
        /\ call' = [op |-> "bar_properties_set", title |-> title,
                    min |-> omin, max |-> omax, reverse |-> orev]
        /\ out' = Invalidated
        /\ UNCHANGED d

luaA_progressbar_bar_data_add(title, raw) ==
    LET bs == Upsert(bars, title)
        i == BarIndex(bs, title)
    IN  /\ bars' = [bs EXCEPT ![i].value = ClampValue(bs[i], raw)]
        /\ call' = [op |-> "bar_data_add", title |-> title, raw |-> raw]
        /\ out' = Invalidated
        /\ UNCHANGED d

\* A property table of luaA_progressbar_properties_set: every key optional.
NoProperties ==
    [width |-> <<>>, gap |-> <<>>, border_width |-> <<>>,
     border_padding |-> <<>>, ticks_gap |-> <<>>, ticks_count |-> <<>>,
     vertical |-> <<>>, height |-> <<>>]

PropertiesSet(dd, tbl) ==
    [k \in DOMAIN dd |-> luaA_getopt(tbl[k], dd[k])]

luaA_progressbar_properties_set(tbl) ==
    /\ d' = PropertiesSet(d, tbl)
    /\ call' = [op |-> "properties_set"]
    /\ out' = Invalidated
    /\ UNCHANGED bars

progressbar_draw(H, ax) ==
    /\ out' = DrawResult(d, bars, H, ax)
    /\ call' = [op |-> "draw", height |-> H, x |-> ax]
    /\ UNCHANGED <<d, bars>>

\* A draw that hangs never returns to the event loop: no further call.
Hung == out.op = "draw" /\ out.hung

\* ctx->height of the draws, and w->area.x as widget_calculate_offset
\* returns it.
CanvasHeights == {16}

AreaXs == {0}

----------------------------------------------------------------------------
(* The registry under range and value changes, the layout as created *)

RangeInputs == {V5, V10}

RawInputs == {0, V50, 2 * V100}

BarPropertiesCall ==
    /\ ~Hung
    /\ \E title \in Titles, omin \in Opt(RangeInputs), omax \in Opt(RangeInputs) :
        /\ luaA_progressbar_bar_properties_set(title, omin, omax, <<>>)
        /\ \A i \in 1..Len(bars') : Anchored(bars'[i].max_value, RangeInputs)

BarDataAddCall ==
    /\ ~Hung
    /\ \E title \in Titles, raw \in RawInputs :
        luaA_progressbar_bar_data_add(title, raw)

DrawCall ==
    /\ ~Hung
    /\ \E H \in CanvasHeights, ax \in AreaXs : progressbar_draw(H, ax)

Next == BarPropertiesCall \/ BarDataAddCall \/ DrawCall

Spec == Init /\ [][Next]_vars

----------------------------------------------------------------------------
(* The draw under layout changes, the ranges as created *)

Widths == {80, 50, 3}

Gaps == {2, 0}

BorderWidths == {0, 1}

BorderPaddings == {0, 1}

TicksCounts == {0, 2, -2}

TicksGaps == {1, 5, -5}

\* The property tables of the calls: one key each.
PropertyTables ==
    {[NoProperties EXCEPT !.width = <<x>>] : x \in Widths}
    \cup {[NoProperties EXCEPT !.gap = <<x>>] : x \in Gaps}
    \cup {[NoProperties EXCEPT !.border_width = <<x>>] : x \in BorderWidths}
    \cup {[NoProperties EXCEPT !.border_padding = <<x>>] : x \in BorderPaddings}
    \cup {[NoProperties EXCEPT !.ticks_count = <<x>>] : x \in TicksCounts}
    \cup {[NoProperties EXCEPT !.ticks_gap = <<x>>] : x \in TicksGaps}
    \cup {[NoProperties EXCEPT !.vertical = <<x>>] : x \in BOOLEAN}

LayoutRawInputs == {0, V50, V100}

PropertiesCall ==
    /\ ~Hung
    /\ \E tbl \in PropertyTables : luaA_progressbar_properties_set(tbl)

LayoutBarPropertiesCall ==
    /\ ~Hung
    /\ \E title \in Titles, orev \in Opt(BOOLEAN) :
        luaA_progressbar_bar_properties_set(title, <<>>, <<>>, orev)

LayoutBarDataAddCall ==
    /\ ~Hung
    /\ \E title \in Titles, raw \in LayoutRawInputs :
        luaA_progressbar_bar_data_add(title, raw)

NextDraw ==
    PropertiesCall \/ LayoutBarPropertiesCall \/ LayoutBarDataAddCall
        \/ DrawCall

SpecDraw == Init /\ [][NextDraw]_vars

----------------------------------------------------------------------------
(* The draw in tick mode: the tick parameters varied, few layouts *)

TickWidths == {80, 3}

TickCounts == {1, 3, 10}

TickGaps == {1, 2, -5}

\* The property tables of the calls: one key each.
TickPropertyTables ==
    {[NoProperties EXCEPT !.width = <<x>>] : x \in TickWidths}
    \cup {[NoProperties EXCEPT !.ticks_count = <<x>>] : x \in TickCounts}
    \cup {[NoProperties EXCEPT !.ticks_gap = <<x>>] : x \in TickGaps}
    \cup {[NoProperties EXCEPT !.vertical = <<x>>] : x \in BOOLEAN}

TickPropertiesCall ==
    /\ ~Hung
    /\ \E tbl \in TickPropertyTables : luaA_progressbar_properties_set(tbl)

NextTicks ==
    TickPropertiesCall \/ LayoutBarPropertiesCall \/ LayoutBarDataAddCall
        \/ DrawCall

SpecTicks == Init /\ [][NextTicks]_vars

----------------------------------------------------------------------------
(* Claims about the registry *)

TitlesOf(bs) == [i \in 1..Len(bs) |-> bs[i].title]

BarCalls == {"bar_properties_set", "bar_data_add"}

\* The bar titled title, for a title the list holds.
BarOf(bs, title) == bs[BarIndex(bs, title)]

\* C1: after any sequence of bar_properties_set and bar_data_add calls every
\* bar of the list has min_value < max_value, strictly.
C1_RangeStrict ==
    \A i \in 1..Len(bars) : bars[i].min_value < bars[i].max_value

\* A call that supplied an inverted range (min 10, max 5) has acted and left
\* the range one epsilon wide; the other bar, created by bar_data_add, still
\* has its range.
C1_Witness ==
    /\ call.op = "bar_properties_set"
    /\ call.min = <<V10>> /\ call.max = <<V5>>
    /\ Len(bars) = 2
    /\ BarOf(bars, call.title).max_value - BarOf(bars, call.title).min_value = Eps

\* C2: after any sequence of calls every bar has
\* min_value <= value <= max_value, in every state a draw can see, and
\* bar_data_add stores its argument clamped into the range.
C2_ValueInRange ==
    /\ \A i \in 1..Len(bars) :
        /\ bars[i].min_value <= bars[i].value
        /\ bars[i].value <= bars[i].max_value
    /\ (call.op = "bar_data_add" =>
        LET b == BarOf(bars, call.title)
        IN  b.value = IF call.raw < b.min_value THEN b.min_value
                      ELSE IF call.raw > b.max_value THEN b.max_value
                      ELSE call.raw)

\* A call that lowered max_value to 5.0 has acted on a bar whose value was
\* above it (no bar_data_add argument is 5.0) and the value is now max_value.
C2_Witness ==
    /\ call.op = "bar_properties_set"
    /\ call.max = <<V5>>
    /\ BarOf(bars, call.title).value = V5
    /\ BarOf(bars, call.title).max_value = V5

\* C3: a bar call with a title no bar has appends one bar with that title, a
\* bar call with a title some bar has leaves the titles and their order as
\* they are, either call leaves every other bar as it is, no two bars share a
\* title, and a draw walks the bars in list order.
C3_TitlesInFirstReferenceOrder ==
    /\ [](\A i, j \in 1..Len(bars) : bars[i].title = bars[j].title => i = j)
    /\ [][/\ (call'.op \in BarCalls =>
                (/\ TitlesOf(bars') =
                    IF \E i \in 1..Len(bars) : bars[i].title = call'.title
                    THEN TitlesOf(bars)
                    ELSE Append(TitlesOf(bars), call'.title)
                 /\ \A i \in 1..Len(bars) :
                    bars[i].title # call'.title => bars'[i] = bars[i]))
           /\ (call'.op = "draw" =>
                (/\ bars' = bars
                 /\ [i \in 1..Len(out'.turns) |-> out'.turns[i].title]
                        = TitlesOf(bars)))]_vars

\* Both titles are in the list, the second one first, and the last call, a
\* bar_data_add, named the title of the first bar again.
C3_Witness ==
    /\ TitlesOf(bars) = <<"mem", "cpu">>
    /\ call.op = "bar_data_add"
    /\ call.title = "mem"

\* The bar a call with title works on, as it is before the call.
BarBefore(title) ==
    IF BarIndex(bars, title) = 0
    THEN [title |-> title, min_value |-> 0, max_value |-> 100 * Scale,
          value |-> 0, reverse |-> FALSE]
    ELSE bars[BarIndex(bars, title)]

\* C7: bar_properties_set reconciles the range in two phases: the new min is
\* applied, max <= min sets max to the old max plus the epsilon, value is
\* raised to min; then the new max is applied, min >= max sets min to max
\* minus the epsilon, value is lowered to max.  So a new max at or below min
\* leaves min = max - epsilon (max 5 on min 10 gives 5 - 0.0001 and 5), and
\* a call with new_min < new_max stores exactly those bounds.
C7_TwoPhaseRange ==
    [][call'.op = "bar_properties_set" =>
        LET pre == BarBefore(call'.title)
            post == BarOf(bars', call'.title)
            min1 == IF call'.min = <<>> THEN pre.min_value ELSE call'.min[1]
            max1 == IF pre.max_value <= min1 THEN pre.max_value + Eps
                    ELSE pre.max_value
            val1 == IF pre.value < min1 THEN min1 ELSE pre.value
            max2 == IF call'.max = <<>> THEN max1 ELSE call'.max[1]
            min2 == IF min1 >= max2 THEN max2 - Eps ELSE min1
            val2 == IF val1 > max2 THEN max2 ELSE val1
        IN  /\ post.min_value = min2
            /\ post.max_value = max2
            /\ post.value = val2
            /\ ((call'.min = <<>> /\ call'.max # <<>>
                    /\ pre.min_value >= luaA_getopt(call'.max, 0))
                => (/\ post.min_value = call'.max[1] - Eps
                    /\ post.max_value = call'.max[1]))
            /\ ((call'.min # <<>> /\ call'.max # <<>>
                    /\ luaA_getopt(call'.min, 0) < luaA_getopt(call'.max, 0))
                => (/\ post.min_value = call'.min[1]
                    /\ post.max_value = call'.max[1]))
            /\ ((call'.min # <<>> /\ call'.max = <<>>
                    /\ pre.max_value <= luaA_getopt(call'.min, 0))
                => (/\ post.max_value = pre.max_value + Eps
                    /\ post.min_value = pre.max_value))]_vars

\* A call that set only max_value = 5.0 has acted on a bar whose min_value
\* was at or above 5.0: the range is now 5 - 0.0001 .. 5.
C7_Witness ==
    /\ call.op = "bar_properties_set"
    /\ call.min = <<>> /\ call.max = <<V5>>
    /\ BarOf(bars, call.title).min_value = V5 - Eps
    /\ BarOf(bars, call.title).max_value = V5

----------------------------------------------------------------------------
(* Claims about the draw *)

\* A draw has run and out holds what it emitted; bars and d are as it saw
\* them, any call after it invalidates out.
Drawn == out.op = "draw"

\* The fill segments a turn emitted, in order.
Segments(turn) ==
    SelectSeq(turn.cmds, LAMBDA c : c.site \in {"low", "high"})

\* The length of a segment along the axis of the fill.
SegmentLength(c) == IF d.vertical THEN c.h ELSE c.w

\* Where a segment starts along the axis of the fill, counted from the low
\* end: the left of a horizontal bar, the bottom of a vertical one.
SegmentStart(c) ==
    IF d.vertical
    THEN (out.lay.pb_y + out.lay.pb_height) - (c.y + c.h)
    ELSE c.x - out.lay.pb_x

RECURSIVE SumLengths(_)
SumLengths(cs) ==
    IF cs = <<>> THEN 0 ELSE SegmentLength(Head(cs)) + SumLengths(Tail(cs))

\* The length of the fill of the last draw.
DrawnLength == SecondaryLength(d, out.lay)

\* The geometry in which the fill is well formed: a length that is not
\* negative in continuous mode; in tick mode a positive ticks_count and a
\* unit that is neither negative nor below ticks_gap.
WellFormed ==
    IF Quantized(d)
    THEN d.ticks_count > 0 /\ out.lay.unit >= 0
            /\ out.lay.unit >= d.ticks_gap
    ELSE DrawnLength >= 0

\* C4: a draw of a widget with no bar returns 0 and emits nothing, whatever
\* the layout parameters, and a draw that divides by the number of bars has
\* counted at least one.
C4_EmptyDrawIsNoOp ==
    Drawn =>
        IF Len(bars) = 0
        THEN /\ ~out.hung
             /\ out.ret = 0
             /\ out.cmds = <<>>
             /\ out.nbbars = 0
             /\ "lay" \notin DOMAIN out
        ELSE /\ out.nbbars = Len(bars)
             /\ out.nbbars >= 1

\* A vertical widget with ticks, a changed width and no bar has been drawn.
C4_Witness ==
    /\ Drawn
    /\ Len(bars) = 0
    /\ d.vertical
    /\ Quantized(d)
    /\ d.width = 50

\* The values the progress of a drawn bar is compared at.
ProbeValues == {k * V5 : k \in 0..20}

\* The progress the last draw computes for bar were its value v.
ProgressAt(bar, v) ==
    Progress(d, DrawnLength, out.lay.unit, [bar EXCEPT !.value = v])

\* The progress of every drawn bar is not below the progress at any lower
\* value of its range and not above the progress at any higher one.
MonotoneProgress ==
    \A i \in 1..Len(out.turns) :
        \A v \in ProbeValues :
            (bars[i].min_value <= v /\ v <= bars[i].max_value) =>
                /\ (v <= bars[i].value =>
                        ProgressAt(bars[i], v) <= out.turns[i].progress)
                /\ (v >= bars[i].value =>
                        ProgressAt(bars[i], v) >= out.turns[i].progress)

\* C5 as stated, of the draws that return: the progress a draw computes is monotonically non-decreasing
\* in the value, in both orientations, in continuous mode and in tick mode
\* for any ticks_count and ticks_gap that enable it.
C5_AsStated == (Drawn /\ out.nbbars > 0 /\ ~out.hung) => MonotoneProgress

\* C5 amended: the progress is monotonically non-decreasing in the value when
\* the length of the fill is not negative in continuous mode and, in tick
\* mode, when ticks_count > 0, unit >= 0 and unit >= ticks_gap.
C5_MonotoneWhenWellFormed ==
    (Drawn /\ out.nbbars > 0 /\ WellFormed) => MonotoneProgress

\* A vertical draw with ticks of a bar at half its range, whose progress is
\* strictly between that of the ends.
C5_Witness ==
    /\ Drawn /\ out.nbbars > 0 /\ WellFormed
    /\ d.vertical /\ Quantized(d)
    /\ \E i \in 1..Len(out.turns) :
        /\ bars[i].value = V50
        /\ ProgressAt(bars[i], bars[i].min_value) < out.turns[i].progress
        /\ out.turns[i].progress < ProgressAt(bars[i], bars[i].max_value)

\* The segments of every drawn bar have lengths that are not negative and
\* add up to the length of the fill.
ComplementarySegments ==
    \A i \in 1..Len(out.turns) :
        /\ \A k \in 1..Len(Segments(out.turns[i])) :
            SegmentLength(Segments(out.turns[i])[k]) >= 0
        /\ SumLengths(Segments(out.turns[i])) = DrawnLength

\* C6 as stated, of the draws that return: for every bar drawn, in both orientations, reversed or not,
\* in continuous and in tick mode, the two segments emitted have lengths that
\* are not negative and add up to the bar's effective secondary length.
C6_AsStated ==
    (Drawn /\ out.nbbars > 0 /\ ~out.hung) => ComplementarySegments

\* C6 amended: the same, when the length of the fill is not negative in
\* continuous mode and, in tick mode, when ticks_count > 0, unit >= 0 and
\* unit >= ticks_gap.
C6_ComplementaryWhenWellFormed ==
    (Drawn /\ out.nbbars > 0 /\ WellFormed) => ComplementarySegments

\* A reversed bar at half its range has been drawn with ticks, horizontally,
\* and both its segments were emitted.
C6_Witness ==
    /\ Drawn /\ out.nbbars > 0 /\ WellFormed
    /\ ~d.vertical /\ Quantized(d)
    /\ \E i \in 1..Len(out.turns) :
        /\ bars[i].reverse
        /\ bars[i].value = V50
        /\ Len(Segments(out.turns[i])) = 2

\* floor(L * (value - min) / (max - min) + 1/2).
FloorHalf(L, bar) ==
    (2 * L * (bar.value - bar.min_value) + (bar.max_value - bar.min_value))
        \div (2 * (bar.max_value - bar.min_value))

\* The horizontal continuous draw of C8: the usable length and, for every
\* bar, the rounded progress, 0 at min_value and the whole length at
\* max_value.
HorizontalContinuousProgress ==
    /\ out.lay.pb_width = d.width - 2 * (d.border_width + d.border_padding)
    /\ \A i \in 1..Len(out.turns) :
        /\ out.turns[i].progress = FloorHalf(out.lay.pb_width, bars[i])
        /\ bars[i].value = bars[i].min_value => out.turns[i].progress = 0
        /\ bars[i].value = bars[i].max_value =>
                out.turns[i].progress = out.lay.pb_width
        /\ (d.width = 80 /\ d.border_width = 1 /\ d.border_padding = 0
                /\ bars[i].min_value = 0 /\ bars[i].max_value = V100
                /\ bars[i].value = V50)
            => (out.turns[i].progress = 39 /\ out.lay.pb_width = 78)

\* C8 as stated: in horizontal continuous mode the usable length is
\* L = width - 2 * (border_width + border_padding) and the progress of a bar
\* is floor(L * (value - min) / (max - min) + 1/2): 0 at min, L at max, 39 of
\* 78 for the example.
C8_AsStated ==
    (Drawn /\ out.nbbars > 0 /\ ~d.vertical /\ ~Quantized(d))
        => HorizontalContinuousProgress

\* L * (value - min) / (max - min) + 1/2 cut toward zero.
TruncHalf(L, bar) ==
    LET a == 2 * L * (bar.value - bar.min_value)
                + (bar.max_value - bar.min_value)
        b == 2 * (bar.max_value - bar.min_value)
    IN  IF a >= 0 THEN a \div b ELSE -((-a) \div b)

\* C8 amended: in horizontal continuous mode the usable length is
\* L = width - 2 * (border_width + border_padding) and the progress of a bar
\* is L * (value - min) / (max - min) + 1/2 cut toward zero; for L >= 0 that
\* is the floor, 0 at min, L at max, 39 of 78 for the example.
C8_HorizontalContinuousProgress ==
    (Drawn /\ out.nbbars > 0 /\ ~d.vertical /\ ~Quantized(d)) =>
        /\ out.lay.pb_width = d.width - 2 * (d.border_width + d.border_padding)
        /\ \A i \in 1..Len(out.turns) :
            out.turns[i].progress = TruncHalf(out.lay.pb_width, bars[i])
        /\ (out.lay.pb_width >= 0 => HorizontalContinuousProgress)

\* The example of C8 has been drawn.
C8_Witness ==
    /\ Drawn /\ ~d.vertical /\ ~Quantized(d)
    /\ d.width = 80 /\ d.border_width = 1 /\ d.border_padding = 0
    /\ \E i \in 1..Len(out.turns) :
        /\ bars[i].min_value = 0 /\ bars[i].max_value = V100
        /\ bars[i].value = V50
        /\ out.turns[i].progress = 39

\* num / n as C divides integers, n > 0.
TruncDiv(num, n) == IF num >= 0 THEN num \div n ELSE -((-num) \div n)

\* C9: in vertical mode with n >= 1 bars the thickness of a bar is
\* (width - 2*n*(border_width + border_padding) - gap*(n-1)) / n by integer
\* division, the draw returns n*(thickness + 2*(border_width +
\* border_padding)) + gap*(n-1), the offset of each bar is that of the bar
\* before it plus thickness + gap + 2*(border_width + border_padding), and
\* two bars with width 50, border 1, padding 1, gap 2 are 20 thick and
\* return 50.
C9_VerticalLayout ==
    (Drawn /\ out.nbbars > 0 /\ d.vertical) =>
        LET n == Len(bars)
            f == d.border_width + d.border_padding
            thickness == TruncDiv(d.width - 2 * n * f - d.gap * (n - 1), n)
        IN  /\ out.lay.pb_width = thickness
            /\ (~out.hung =>
                    out.ret = n * (thickness + 2 * f) + d.gap * (n - 1))
            /\ out.turns[1].pb_offset = 0
            /\ \A i \in 2..Len(out.turns) :
                out.turns[i].pb_offset =
                    out.turns[i - 1].pb_offset + thickness + d.gap + 2 * f
            /\ \A i \in 1..Len(out.turns) :
                \A k \in 1..Len(Segments(out.turns[i])) :
                    /\ Segments(out.turns[i])[k].x =
                            call.x + f + out.turns[i].pb_offset
                    /\ Segments(out.turns[i])[k].w = thickness
            /\ (n = 2 /\ d.width = 50 /\ d.border_width = 1
                    /\ d.border_padding = 1 /\ d.gap = 2)
                => (thickness = 20 /\ (~out.hung => out.ret = 50))

\* The example of C9 has been drawn and the draw returned 50.
C9_Witness ==
    /\ Drawn /\ d.vertical /\ ~out.hung
    /\ Len(bars) = 2
    /\ d.width = 50 /\ d.border_width = 1 /\ d.border_padding = 1
    /\ d.gap = 2
    /\ out.lay.pb_width = 20
    /\ out.ret = 50
    /\ out.turns[2].pb_offset = 26

\* The segments of turn drawn with the gradient, and those drawn with fg_off.
GradientSegments(turn) ==
    SelectSeq(Segments(turn), LAMBDA c : c.fill = "gradient")

OffSegments(turn) ==
    SelectSeq(Segments(turn), LAMBDA c : c.fill = "solid")

\* The segments of a turn for a bar: the gradient one, when drawn, has the
\* length progress and lies at the low end unless the bar is reversed, then
\* at the high end; the other one, when drawn, is solid fg_off, has the
\* length len - progress and lies at the other end.
SegmentRoles(bar, turn) ==
    /\ Len(GradientSegments(turn)) <= 1
    /\ Len(OffSegments(turn)) <= 1
    /\ Len(GradientSegments(turn)) = 1 <=> turn.progress > 0
    /\ Len(OffSegments(turn)) = 1 <=> DrawnLength - turn.progress > 0
    /\ \A k \in 1..Len(GradientSegments(turn)) :
        LET c == GradientSegments(turn)[k]
        IN  /\ c.color = "fg"
            /\ SegmentLength(c) = turn.progress
            /\ c.site = IF bar.reverse THEN "high" ELSE "low"
            /\ SegmentStart(c) =
                IF bar.reverse THEN DrawnLength - turn.progress ELSE 0
    /\ \A k \in 1..Len(OffSegments(turn)) :
        LET c == OffSegments(turn)[k]
        IN  /\ c.color = "fg_off"
            /\ SegmentLength(c) = DrawnLength - turn.progress
            /\ c.site = IF bar.reverse THEN "low" ELSE "high"
            /\ SegmentStart(c) = IF bar.reverse THEN 0 ELSE turn.progress

\* The turn the last draw would have made for the i-th bar were its reverse
\* toggled.
ToggledTurn(i) ==
    BarTurn(d, out.lay, [bars[i] EXCEPT !.reverse = ~@],
            out.turns[i].pb_offset)

\* Toggling reverse keeps the progress and gives the segments the roles of
\* the other state.
ReverseMirrors ==
    \A i \in 1..Len(out.turns) :
        /\ SegmentRoles(bars[i], out.turns[i])
        /\ ToggledTurn(i).progress = out.turns[i].progress
        /\ SegmentRoles([bars[i] EXCEPT !.reverse = ~@], ToggledTurn(i))

\* At max_value no fg_off segment is drawn, in either state of reverse, and
\* the gradient segment spans the whole length (it is drawn when the length
\* is positive).
FullAtMax ==
    \A i \in 1..Len(out.turns) :
        bars[i].value = bars[i].max_value =>
            \A turn \in {out.turns[i], ToggledTurn(i)} :
                /\ OffSegments(turn) = <<>>
                /\ \A k \in 1..Len(GradientSegments(turn)) :
                    SegmentLength(GradientSegments(turn)[k]) = DrawnLength
                /\ DrawnLength > 0 => Len(GradientSegments(turn)) = 1

----------------------------------------------------------------------------
(* Claims about the gaps between ticks *)

\* The gap rectangles the last draw emitted for the bar titled title, in
\* order.
GapsOf(title) ==
    SelectSeq(out.cmds, LAMBDA c : c.site = "gap" /\ c.bar = title)

\* Thickness and position of a gap rectangle along the axis of the fill,
\* the position counted from the start of the fill area (pb_x, or pb_y).
GapThickness(c) == IF d.vertical THEN c.h ELSE c.w

GapPosition(c) ==
    IF d.vertical THEN c.y - out.lay.pb_y ELSE c.x - out.lay.pb_x

\* The gap rectangles of a bar are solid, bg-coloured, ticks_gap thick and
\* as long across as the bar; the first one ends one unit into the fill area
\* and every next one lies one unit further.
GapShapes(title) ==
    \A k \in 1..Len(GapsOf(title)) :
        LET c == GapsOf(title)[k]
        IN  /\ c.fill = "solid" /\ c.color = "bg"
            /\ GapThickness(c) = d.ticks_gap
            /\ (IF d.vertical THEN c.w = out.lay.pb_width
                              ELSE c.h = out.lay.pb_height)
            /\ GapPosition(c) = k * out.lay.unit - d.ticks_gap

\* In the commands of the last draw the gap rectangles of a bar come after
\* its border and both of its fill segments, and everything of a bar comes
\* before anything of the next one.
GapsAfterSegments ==
    \A p, q \in 1..Len(out.cmds) :
        LET a == out.cmds[p]
            b == out.cmds[q]
        IN  /\ ((a.bar = b.bar /\ a.site = "gap" /\ b.site # "gap")
                    => (q < p))
            /\ ((BarIndex(bars, a.bar) < BarIndex(bars, b.bar)) => (p < q))

\* A draw in tick mode has returned.
TickDrawn == Drawn /\ out.nbbars > 0 /\ ~out.hung /\ Quantized(d)

\* C11 as stated: in tick mode the draw emits, for every bar, ticks_count
\* solid bg-coloured gap rectangles of thickness ticks_gap, spaced every
\* unit, all of them after both fill segments of the bar and before anything
\* of the next bar.
C11_AsStated ==
    TickDrawn =>
        /\ \A i \in 1..Len(bars) :
            /\ Len(GapsOf(bars[i].title)) = d.ticks_count
            /\ GapShapes(bars[i].title)
        /\ GapsAfterSegments

\* C11 amended: in tick mode with a positive unit the gap rectangles of every
\* bar are solid, bg-coloured, ticks_gap thick, spaced every unit, emitted
\* after both fill segments of the bar and before anything of the next bar;
\* with ticks_count > 0 and 0 < ticks_gap <= unit there are ticks_count - 1
\* of them for every bar, the k-th one at k * unit - ticks_gap.
C11_GapsBetweenTicks ==
    (TickDrawn /\ out.lay.unit > 0) =>
        /\ \A i \in 1..Len(bars) :
            /\ GapShapes(bars[i].title)
            /\ ((d.ticks_count > 0 /\ d.ticks_gap > 0
                    /\ d.ticks_gap <= out.lay.unit)
                  => (Len(GapsOf(bars[i].title)) = d.ticks_count - 1))
        /\ GapsAfterSegments

\* Two bars have been drawn with ten ticks of unit 7 and gap 1: nine gap
\* rectangles each, the ones of the first bar before the border of the
\* second, both fill segments of the second bar drawn.
C11_Witness ==
    /\ TickDrawn /\ out.nbbars = 2
    /\ d.ticks_count = 10 /\ d.ticks_gap = 1 /\ out.lay.unit = 7
    /\ Len(GapsOf(bars[1].title)) = 9
    /\ Len(GapsOf(bars[2].title)) = 9
    /\ Len(Segments(out.turns[2])) = 2
    /\ GapPosition(GapsOf(bars[2].title)[9]) = 62

----------------------------------------------------------------------------
(* Claims about termination of the draw *)

\* C12 as stated, of the draws whose loop of the gaps steps by a unit that
\* is not negative: a draw of a list that is not empty returns, the loop of
\* the gaps reaching its exit condition, whatever the layout parameters.  (A
\* negative unit moves the position away from the exit, which then only a
\* wrap-around of the coordinate could reach.)
C12_AsStated ==
    (Drawn /\ out.nbbars > 0 /\ out.lay.unit >= 0) => ~out.hung

====
